---- MODULE Spec2Model ----
(***************************************************************************)
(* The sandboxed execution supervisor of agent_gateway/mcp:                *)
(* IsolatedPythonExecutor (executor_isolated.py) and the worker program it *)
(* launches.  One supervisor instance, its worker processes with their     *)
(* stdin/stdout pipes, and the threads that call execute().                *)
(***************************************************************************)
EXTENDS Integers, Sequences, FiniteSets, TLC

\* ------------------------------------------------------------------ bounds
\* Total number of execute() calls made by all threads together.
MaxCalls == 3

\* The calling threads.
Threads == {"t1", "t2"}

\* Constructor arguments the model explores (executor_isolated.py:31-36):
\* max_executions, cleanup_modules, force_gc_interval.
Configs == {<<1, FALSE, 2>>, <<2, TRUE, 2>>, <<2, FALSE, 0>>}

\* ------------------------------------------------------- worker start state
\* sys.path, sys.modules and the module namespace of a freshly started worker.
InitialPath == <<"stdlib">>
InitialModules == {"sys", "json"}
WorkerGlobals == {"json", "sys"}

VARIABLES
    max_executions,     \* self._max_executions
    cleanup_modules,    \* self._cleanup_modules
    force_gc_interval,  \* self._force_gc_interval
    _process,           \* self._process: index into procs, 0 for None
    _initialized,       \* self._initialized
    _execution_count,   \* self._execution_count
    _lock,              \* self._lock: the holding thread, or "free"
    procs,              \* every process Popen ever created, in spawn order
    pc,                 \* per thread: where it is inside execute()
    call,               \* per thread: the call in progress
    last,               \* the most recent finished call
    ncalls,             \* calls started so far
    atexit_registered,  \* atexit.register(self.cleanup) has run
    cleanup_called      \* cleanup() has been called from outside

vars == <<max_executions, cleanup_modules, force_gc_interval, _process,
          _initialized, _execution_count, _lock, procs, pc, call, last, ncalls,
          atexit_registered, cleanup_called>>

config == <<max_executions, cleanup_modules, force_gc_interval>>

\* ----------------------------------------------------------------- snippets
\* The code strings callers pass.  Every non-empty snippet first prints its
\* tag (the calling thread), then does what its kind says:
\*   bind          X = 1
\*   ref           print(X)
\*   append        sys.path.append("a")
\*   append_raise  sys.path.append("a"); 1 / 0
\*   exit          raise SystemExit
\*   rawline       os.write(1, b"garbage\n")   (bypasses redirect_stdout)
\* and the empty string.
SnippetKinds == {"bind", "ref", "append", "append_raise", "exit", "rawline"}

\* Snippets that touch what the reset step is there for:
\*   import        import m            (m loads its extension module _m)
\*   import_raise  import m; 1 / 0
\*   insert        sys.path.insert(0, "a")
ResetKinds == {"import", "import_raise", "insert"}

EmptyCode == [kind |-> "empty", tag |-> "-"]

Codes(t, kinds) ==
    {[kind |-> k, tag |-> t] : k \in kinds \ {"empty"}}
        \cup (IF "empty" \in kinds THEN {EmptyCode} ELSE {})

AllKinds == SnippetKinds \cup {"empty"}

Binds(code) == IF code.kind = "bind" THEN {<<"X", 1>>} ELSE {}

Refs(code) == IF code.kind = "ref" THEN {"X"} ELSE {}

PathAppends(code) ==
    IF code.kind \in {"append", "append_raise"} THEN <<"a">> ELSE <<>>

PathInserts(code) == IF code.kind = "insert" THEN <<"a">> ELSE <<>>

Imports(code) ==
    IF code.kind \in {"import", "import_raise"} THEN {"m", "_m"} ELSE {}

RawLines(code) ==
    IF code.kind = "rawline" THEN <<[fmt |-> "garbage", body |-> [x |-> 0]]>>
    ELSE <<>>

Raises(code) ==
    CASE code.kind \in {"append_raise", "import_raise"} -> "ZeroDivisionError"
      [] code.kind = "exit" -> "SystemExit"
      [] OTHER -> "none"

\* ------------------------------------------------------------ wire format
\* json.dumps(obj): one line holding the object.
json_dumps(obj) == [fmt |-> "json", body |-> obj]

\* A parser that takes any line for an object.
json_loads_AcceptAll(line) == [ok |-> TRUE, val |-> line.body]

\* json.loads(line): the object, or a raised ValueError for a line that is
\* not JSON.
json_loads(line) ==
    IF line.fmt = "json" THEN [ok |-> TRUE, val |-> line.body]
    ELSE [ok |-> FALSE, val |-> [error |-> "JSONDecodeError"]]

\* str(v) of the values snippets bind.
str(v) == ToString(v)

\* ------------------------------------------------------------------ worker
\* A process right after Popen: "ready" printed READY; "hang" is running
\* and prints nothing; the others printed something else or nothing and
\* have exited.
NewProc(outcome) ==
    [alive   |-> outcome \in {"ready", "hang"},
     ready   |-> outcome = "ready",
     stdin   |-> <<>>,
     stdout  |-> <<>>,
     path    |-> IF outcome = "ready" THEN InitialPath ELSE <<>>,
     modules |-> IF outcome = "ready" THEN InitialModules ELSE {},
     globals |-> IF outcome = "ready" THEN WorkerGlobals ELSE {},
     served  |-> 0]

\* A process that has exited or was killed: its interpreter state is gone,
\* what it already wrote stays readable in the stdout pipe.
Exited(w) ==
    [w EXCEPT !.alive = FALSE, !.stdin = <<>>, !.path = <<>>,
              !.modules = {}, !.globals = {}]

\* exec(code, globals, locals) inside redirect_stdout/redirect_stderr: names
\* resolve in locals and globals only; bindings go to locals; sys.path is
\* the process-wide list.
Exec(code, globals, locals, w) ==
    IF ~(Refs(code) \subseteq (globals \cup {b[1] : b \in locals}))
    THEN [raised |-> "NameError", locals |-> locals,
          stdout |-> <<code.tag>>, path |-> w.path, raw |-> <<>>,
          modules |-> w.modules]
    ELSE [raised |-> Raises(code), locals |-> locals \cup Binds(code),
          stdout |-> <<code.tag>>,
          path |-> (PathInserts(code) \o w.path) \o PathAppends(code),
          raw |-> RawLines(code),
          modules |-> w.modules \cup Imports(code)]

\* A variant that leaves sys.path as the snippet left it.
RestorePath_Skipped(path, original_path_len) == path

\* The finally block: pop sys.path back to its recorded length.
RestorePath(path, original_path_len) ==
    IF Len(path) > original_path_len THEN SubSeq(path, 1, original_path_len)
    ELSE path

\* mod.startswith('_') for the module names of the model.
startswith_underscore(mod) == mod \in {"_m"}

\* A cleanup that deletes nothing.
CleanupModules_KeepsAll(modules, original_modules) == modules

\* Lines 99-105: delete from sys.modules every name that is not in the
\* snapshot and does not start with an underscore.
CleanupModules(modules, original_modules) ==
    {mod \in modules :
        ~(mod \notin original_modules /\ ~startswith_underscore(mod))}

\* run_code_with_reset with the snippet evaluated in the worker's own module
\* namespace, which keeps what it binds.
run_code_with_reset_SharedNamespace(code, cleanup, w) ==
    LET ex == Exec(code, w.globals, {}, w)
        w1 == [w EXCEPT !.path = RestorePath(ex.path, Len(w.path)),
                        !.globals = @ \cup {b[1] : b \in ex.locals}]
    IN  [propagates |-> ex.raised = "SystemExit",
         raw |-> ex.raw,
         w |-> w1,
         result |->
            IF ex.raised = "none"
            THEN [stdout |-> ex.stdout, stderr |-> <<>>,
                  locals |-> {<<b[1], str(b[2])>> : b \in ex.locals}]
            ELSE [error |-> ex.raised, traceback |-> "Traceback",
                  stdout |-> ex.stdout, stderr |-> <<>>]]

\* run_code_with_reset: fresh empty globals and locals for the snippet;
\* "except Exception" does not catch SystemExit, which leaves through the
\* finally block; the finally block restores sys.path.
run_code_with_reset(code, cleanup, w) ==
    LET original_modules == w.modules
        original_path_len == Len(w.path)
        ex == Exec(code, {}, {}, w)
        w1 == [w EXCEPT !.path = RestorePath(ex.path, original_path_len),
                        !.modules = IF cleanup
                                    THEN CleanupModules(ex.modules,
                                                        original_modules)
                                    ELSE ex.modules]
    IN  [propagates |-> ex.raised = "SystemExit",
         raw |-> ex.raw,
         w |-> w1,
         result |->
            IF ex.raised = "none"
            THEN [stdout |-> ex.stdout, stderr |-> <<>>,
                  locals |-> {<<b[1], str(b[2])>> : b \in ex.locals}]
            ELSE [error |-> ex.raised, traceback |-> "Traceback",
                  stdout |-> ex.stdout, stderr |-> <<>>]]

\* A main loop that runs every snippet, the empty one too.
ServeLine_RunsEmptyCode(w, line) ==
    LET request == json_loads(line)
        w0 == [w EXCEPT !.stdin = Tail(@), !.served = @ + 1]
    IN  IF ~request.ok
        THEN [w0 EXCEPT !.stdout = Append(@, json_dumps(
                 [error |-> "JSONDecodeError", traceback |-> "Traceback"]))]
        ELSE LET r == run_code_with_reset(request.val.code,
                                          request.val.cleanup_modules, w0)
             IN  IF r.propagates
                 THEN Exited([r.w EXCEPT !.stdout = @ \o r.raw])
                 ELSE [r.w EXCEPT !.stdout =
                          (@ \o r.raw) \o <<json_dumps(r.result)>>]

\* One iteration of the worker's main loop on the request line `line`.
ServeLine(w, line) ==
    LET request == json_loads(line)
        w0 == [w EXCEPT !.stdin = Tail(@), !.served = @ + 1]
    IN  IF ~request.ok
        THEN [w0 EXCEPT !.stdout = Append(@, json_dumps(
                 [error |-> "JSONDecodeError", traceback |-> "Traceback"]))]
        ELSE IF request.val.code = EmptyCode
        THEN [w0 EXCEPT !.stdout = Append(@, json_dumps(
                 [error |-> "No code provided"]))]
        ELSE LET r == run_code_with_reset(request.val.code,
                                          request.val.cleanup_modules, w0)
             IN  IF r.propagates
                 THEN Exited([r.w EXCEPT !.stdout = @ \o r.raw])
                 ELSE [r.w EXCEPT !.stdout =
                          (@ \o r.raw) \o <<json_dumps(r.result)>>]

\* -------------------------------------------------------------- supervisor
\* The supervisor's fields as one value, so that the helpers below compose.
Sup ==
    [process |-> _process, initialized |-> _initialized,
     count |-> _execution_count, procs |-> procs,
     registered |-> atexit_registered,
     raised |-> "none", starts |-> 0, spawned |-> 0]

\* Rebinding self._process drops the old Popen object and its pipes: nothing
\* is written to or read from that process again.
Dropped(s) ==
    IF s.process = 0 THEN s.procs
    ELSE IF s.procs[s.process].alive
    THEN [s.procs EXCEPT ![s.process].stdin = <<>>,
                         ![s.process].stdout = <<>>]
    ELSE [s.procs EXCEPT ![s.process] = NewProc("gone")]

StartOutcomes == {"ready", "bad_line", "no_compose"}

\* The start attempts whose worker keeps running without printing a line.
HangOutcomes == {"hang"}

\* A start that creates the process before it looks for the compose file.
_start_process_SpawnFirst(s, outcome) ==
    LET s1 == [s EXCEPT !.procs = Append(Dropped(s), NewProc(outcome)),
                        !.process = Len(s.procs) + 1,
                        !.starts = @ + 1, !.spawned = @ + 1]
    IN  IF outcome = "no_compose"
        THEN [s1 EXCEPT !.raised = "ConfigurationError"]
        ELSE IF outcome = "hang"
        THEN [s1 EXCEPT !.raised = "blocked"]
        ELSE IF outcome # "ready"
        THEN [s1 EXCEPT !.raised = "StartupFailure"]
        ELSE [s1 EXCEPT !.initialized = TRUE, !.count = 0,
                        !.registered = TRUE]

\* A start that leaves the execution counter as it was.
_start_process_KeepCount(s, outcome) ==
    IF outcome = "no_compose"
    THEN [s EXCEPT !.raised = "ConfigurationError", !.starts = @ + 1]
    ELSE LET s1 == [s EXCEPT !.procs = Append(Dropped(s), NewProc(outcome)),
                             !.process = Len(s.procs) + 1,
                             !.starts = @ + 1, !.spawned = @ + 1]
         IN  IF outcome = "hang"
             THEN [s1 EXCEPT !.raised = "blocked"]
             ELSE IF outcome # "ready"
             THEN [s1 EXCEPT !.raised = "StartupFailure"]
             ELSE [s1 EXCEPT !.initialized = TRUE, !.registered = TRUE]

\* A start that does not look at the worker's first line.
_start_process_IgnoreReady(s, outcome) ==
    IF outcome = "no_compose"
    THEN [s EXCEPT !.raised = "ConfigurationError", !.starts = @ + 1]
    ELSE LET s1 == [s EXCEPT !.procs = Append(Dropped(s), NewProc(outcome)),
                             !.process = Len(s.procs) + 1,
                             !.starts = @ + 1, !.spawned = @ + 1]
         IN  IF outcome = "hang"
             THEN [s1 EXCEPT !.raised = "blocked"]
             ELSE [s1 EXCEPT !.initialized = TRUE, !.count = 0,
                             !.registered = TRUE]

\* _start_process: `outcome` is what the environment does with this attempt.
\* With "hang" the readline() of line 158 has not returned: the result is
\* marked "blocked" and the caller waits (StartBlocked below).
_start_process(s, outcome) ==
    IF outcome = "no_compose"
    THEN [s EXCEPT !.raised = "ConfigurationError", !.starts = @ + 1]
    ELSE LET s1 == [s EXCEPT !.procs = Append(Dropped(s), NewProc(outcome)),
                             !.process = Len(s.procs) + 1,
                             !.starts = @ + 1, !.spawned = @ + 1]
         IN  IF outcome = "hang"
             THEN [s1 EXCEPT !.raised = "blocked"]
             ELSE IF outcome # "ready"
             THEN [s1 EXCEPT !.raised = "StartupFailure"]
             ELSE [s1 EXCEPT !.initialized = TRUE, !.count = 0,
                             !.registered = TRUE]

\* A cleanup that also marks the handle not started.
cleanup_ClearsInitialized(s) ==
    IF s.process # 0 /\ s.procs[s.process].alive
    THEN [s EXCEPT !.procs[s.process] = Exited(@), !.initialized = FALSE]
    ELSE s

\* cleanup: close the worker's stdin and wait, kill on failure.
cleanup(s) ==
    IF s.process # 0 /\ s.procs[s.process].alive
    THEN [s EXCEPT !.procs[s.process] = Exited(@)]
    ELSE s

\* A restart that leaves _initialized as it was.
_restart_process_KeepInitialized(s, outcome) ==
    _start_process(cleanup(s), outcome)

_restart_process(s, outcome) ==
    _start_process([cleanup(s) EXCEPT !.initialized = FALSE], outcome)

\* get_stats()
get_stats ==
    [execution_count |-> _execution_count,
     max_executions  |-> max_executions,
     cleanup_modules |-> cleanup_modules,
     process_alive   |-> _process # 0 /\ procs[_process].alive]

\* ------------------------------------------------------------------ history
\* A thread that is not inside execute().
NoCall ==
    [code |-> EmptyCode, writes |-> 0, starts |-> 0, spawned |-> 0,
     restarted |-> FALSE, probe_dead |-> FALSE]

\* The record of a finished call: how it ended (status "outcome" with the
\* returned dict, or "raised" with the exception), the worker handle and the
\* counter it left behind, and what it did on the way.
Finished(t, s, c, status, val) ==
    [n |-> ncalls', code |-> c.code, status |-> status, val |-> val,
     pid |-> s.process, execution_count |-> s.count,
     writes |-> c.writes, starts |-> c.starts, spawned |-> c.spawned,
     restarted |-> c.restarted, probe_dead |-> c.probe_dead]

\* Before any call has finished.
NoHistory ==
    [n |-> 0, code |-> EmptyCode, status |-> "none", val |-> "none",
     pid |-> 0, execution_count |-> 0, writes |-> 0, starts |-> 0,
     spawned |-> 0, restarted |-> FALSE, probe_dead |-> FALSE]

Remember(entry) == last' = entry

\* Store the supervisor fields of s.
Commit(s) ==
    /\ _process' = s.process
    /\ _initialized' = s.initialized
    /\ _execution_count' = s.count
    /\ procs' = s.procs
    /\ atexit_registered' = s.registered

\* Leaving execute() with the lock as it is.
EndCall_KeepLock(t, s, c, status, val) ==
    /\ Commit(s)
    /\ pc' = [pc EXCEPT ![t] = "idle"]
    /\ call' = [call EXCEPT ![t] = NoCall]
    /\ _lock' = _lock
    /\ Remember(Finished(t, s, c, status, val))

\* Leaving execute(): the with-block releases the lock.
EndCall(t, s, c, status, val) ==
    /\ Commit(s)
    /\ pc' = [pc EXCEPT ![t] = "idle"]
    /\ call' = [call EXCEPT ![t] = NoCall]
    /\ _lock' = "free"
    /\ Remember(Finished(t, s, c, status, val))

\* Staying inside execute(), at the next step.
Continue(t, s, c, next) ==
    /\ Commit(s)
    /\ pc' = [pc EXCEPT ![t] = next]
    /\ call' = [call EXCEPT ![t] = c]
    /\ UNCHANGED <<_lock, last>>

\* ------------------------------------------------------------------ execute
\* "with self._lock": the lock can be taken.
LockAvailable_NoLock(t) == TRUE

LockAvailable(t) == _lock = "free"

\* The except block of execute: mark the handle not started and raise.
except_block_KeepInitialized(s) == [s EXCEPT !.raised = "ExecutionFailed"]

except_block(s) ==
    [s EXCEPT !.initialized = FALSE, !.raised = "ExecutionFailed"]

\* Line 195: the restart is due.
RestartDue_OffByOne(count, max) == count > max

RestartDue_Always(count, max) == TRUE

RestartDue(count, max) == count >= max

\* Line 199: self._process.poll() is not None.
ProcessDead_NeverProbed(s) == FALSE

ProcessDead(s) == ~s.procs[s.process].alive

\* Lines 189-196: take the lock, start the worker on first use, restart it
\* when the execution count has reached max_executions.
Acquire(t, code, o1, o2) ==
    /\ pc[t] = "idle"
    /\ ncalls < MaxCalls
    /\ LockAvailable(t)
    /\ ncalls' = ncalls + 1
    /\ UNCHANGED <<config, cleanup_called>>
    /\ LET s1 == IF ~_initialized THEN _start_process(Sup, o1) ELSE Sup
           due == s1.raised = "none" /\ RestartDue(s1.count, max_executions)
           s2 == IF due THEN _restart_process(s1, o2) ELSE s1
           c  == [NoCall EXCEPT !.code = code, !.starts = s2.starts,
                                !.spawned = s2.spawned, !.restarted = due]
       IN  IF s2.raised \notin {"none", "blocked"}
           THEN EndCall(t, s2, c, "raised", s2.raised)
           ELSE /\ Commit(s2)
                /\ pc' = [pc EXCEPT ![t] = IF s2.raised = "blocked"
                                           THEN "starting" ELSE "probe"]
                /\ call' = [call EXCEPT ![t] = c]
                /\ _lock' = t
                /\ UNCHANGED last

\* Lines 198-209: the liveness probe with its restart, the counter, the
\* periodic gc.collect() (x % 0 raises ZeroDivisionError).
Probe(t, o) ==
    /\ pc[t] = "probe"
    /\ UNCHANGED <<config, ncalls, cleanup_called>>
    /\ LET s0 == [Sup EXCEPT !.starts = call[t].starts,
                             !.spawned = call[t].spawned]
           s1 == IF ProcessDead(s0)
                 THEN _start_process([s0 EXCEPT !.initialized = FALSE], o)
                 ELSE s0
           s2 == [s1 EXCEPT !.count = @ + 1]
           c  == [call[t] EXCEPT !.starts = s1.starts,
                                 !.spawned = s1.spawned,
                                 !.probe_dead = ~procs[_process].alive]
       IN  IF s1.raised = "blocked"
           THEN Continue(t, s1, c, "starting")
           ELSE IF s1.raised # "none"
           THEN EndCall(t, s1, c, "raised", s1.raised)
           ELSE IF force_gc_interval = 0
           THEN EndCall(t, s2, c, "raised", "ZeroDivisionError")
           ELSE Continue(t, s2, c, "send")

\* Lines 211-223: write the request line and flush.  Writing to a process
\* that has exited raises (broken pipe).
Send(t) ==
    /\ pc[t] = "send"
    /\ UNCHANGED <<config, ncalls, cleanup_called>>
    /\ LET request == [code |-> call[t].code,
                       cleanup_modules |-> cleanup_modules]
           request_line == json_dumps(request)
           c == [call[t] EXCEPT !.writes = @ + 1]
       IN  IF Sup.procs[_process].alive
           THEN Continue(t, [Sup EXCEPT !.procs[_process].stdin =
                                            Append(@, request_line)],
                         c, "recv")
           ELSE LET s == except_block(Sup)
                IN  EndCall(t, s, call[t], "raised", s.raised)

\* Lines 225-238 on the supervisor fields s: read one line; EOF or a line
\* that does not parse raises through the except block; a parsed dict is
\* returned with exit_code and execution_count set.
read_response_FailureResets(s) ==
    LET w == s.procs[s.process]
        parsed == json_loads(Head(w.stdout))
        s0 == [s EXCEPT !.procs[s.process].stdout = Tail(@)]
    IN  IF w.stdout = <<>> \/ ~parsed.ok
        THEN [s |-> except_block(s), status |-> "raised",
              val |-> "ExecutionFailed"]
        ELSE [s |-> IF "error" \in DOMAIN parsed.val
                    THEN [s0 EXCEPT !.initialized = FALSE] ELSE s0,
              status |-> "outcome",
              val |-> [exit_code |-> 0, execution_count |-> s.count]
                      @@ parsed.val]

\* A read that returns an empty outcome at EOF.
read_response_EofIsOutcome(s) ==
    LET w == s.procs[s.process]
    IN  IF w.stdout = <<>>
        THEN [s |-> s, status |-> "outcome",
              val |-> [exit_code |-> 0, execution_count |-> s.count]]
        ELSE LET parsed == json_loads(Head(w.stdout))
                 s0 == [s EXCEPT !.procs[s.process].stdout = Tail(@)]
             IN  IF ~parsed.ok
                 THEN [s |-> except_block(s0), status |-> "raised",
                       val |-> except_block(s0).raised]
                 ELSE [s |-> s0, status |-> "outcome",
                       val |-> [exit_code |-> 0,
                                execution_count |-> s.count] @@ parsed.val]

\* A read that numbers the outcome from 0.
read_response_CountFromZero(s) ==
    LET w == s.procs[s.process]
    IN  IF w.stdout = <<>>
        THEN [s |-> except_block(s), status |-> "raised",
              val |-> except_block(s).raised]
        ELSE LET parsed == json_loads(Head(w.stdout))
                 s0 == [s EXCEPT !.procs[s.process].stdout = Tail(@)]
             IN  IF ~parsed.ok
                 THEN [s |-> except_block(s0), status |-> "raised",
                       val |-> except_block(s0).raised]
                 ELSE [s |-> s0, status |-> "outcome",
                       val |-> [exit_code |-> 0,
                                execution_count |-> s.count - 1] @@ parsed.val]

read_response(s) ==
    LET w == s.procs[s.process]
    IN  IF w.stdout = <<>>
        THEN [s |-> except_block(s), status |-> "raised",
              val |-> except_block(s).raised]
        ELSE LET parsed == json_loads(Head(w.stdout))
                 s0 == [s EXCEPT !.procs[s.process].stdout = Tail(@)]
             IN  IF ~parsed.ok
                 THEN [s |-> except_block(s0), status |-> "raised",
                       val |-> except_block(s0).raised]
                 ELSE [s |-> s0, status |-> "outcome",
                       val |-> [exit_code |-> 0,
                                execution_count |-> s.count] @@ parsed.val]

\* readline() returns once the worker has written a line or has exited.
Recv(t) ==
    /\ pc[t] = "recv"
    /\ procs[_process].stdout # <<>> \/ ~procs[_process].alive
    /\ UNCHANGED <<config, ncalls, cleanup_called>>
    /\ LET r == read_response(Sup)
       IN  EndCall(t, r.s, call[t], r.status, r.val)

\* Lines 158-161 on a worker that printed nothing: readline() returns only
\* when the worker's stdout reaches EOF, and then the start attempt raises.
\* There is no timeout on the read.
StartBlocked(t) ==
    /\ pc[t] = "starting"
    /\ ~procs[_process].alive
    /\ UNCHANGED <<config, ncalls, cleanup_called>>
    /\ EndCall(t, [Sup EXCEPT !.raised = "StartupFailure"], call[t],
               "raised", "StartupFailure")

\* cleanup() called by a thread that is not inside execute(); the method
\* takes no lock and sets no flag.
CallCleanup(t) ==
    /\ pc[t] = "idle"
    /\ Commit(cleanup(Sup))
    /\ cleanup_called' = TRUE
    /\ UNCHANGED <<config, _lock, pc, call, last, ncalls>>

\* The supervisor's interpreter exits: the hook registered at line 167, if
\* any, runs self.cleanup.
AtExit ==
    /\ \A t \in Threads : pc[t] = "idle"
    /\ Commit(IF atexit_registered THEN cleanup(Sup) ELSE Sup)
    /\ pc' = [t \in Threads |-> "exited"]
    /\ UNCHANGED <<config, _lock, call, last, ncalls, cleanup_called>>

\* ------------------------------------------------------------- environment
\* The worker reads one request line and answers it.
WorkerServe(p) ==
    /\ procs[p].alive
    /\ procs[p].stdin # <<>>
    /\ procs' = [procs EXCEPT ![p] = ServeLine(@, Head(@.stdin))]
    /\ UNCHANGED <<config, _process, _initialized, _execution_count, _lock,
                   pc, call, last, ncalls, atexit_registered, cleanup_called>>

\* The current worker process exits or is killed from outside.
Kill(p) ==
    /\ p = _process
    /\ procs[p].alive
    /\ procs' = [procs EXCEPT ![p] = Exited(@)]
    /\ UNCHANGED <<config, _process, _initialized, _execution_count, _lock,
                   pc, call, last, ncalls, atexit_registered, cleanup_called>>

\* ------------------------------------------------------------ specification
Init ==
    /\ \E c \in Configs :
         /\ max_executions = c[1]
         /\ cleanup_modules = c[2]
         /\ force_gc_interval = c[3]
    /\ _process = 0
    /\ _initialized = FALSE
    /\ _execution_count = 0
    /\ _lock = "free"
    /\ procs = <<>>
    /\ pc = [t \in Threads |-> "idle"]
    /\ call = [t \in Threads |-> NoCall]
    /\ last = NoHistory
    /\ ncalls = 0
    /\ atexit_registered = FALSE
    /\ cleanup_called = FALSE

\* The steps of the callers in T passing snippets of the kinds in K, of the
\* workers and of the environment.
NextFor(T, K) ==
    \/ \E t \in T, o1 \in StartOutcomes, o2 \in StartOutcomes :
         \E code \in Codes(t, K) : Acquire(t, code, o1, o2)
    \/ \E t \in T, o \in StartOutcomes : Probe(t, o)
    \/ \E t \in T : Send(t)
    \/ \E t \in T : Recv(t)
    \/ \E p \in DOMAIN procs : WorkerServe(p)
    \/ \E p \in DOMAIN procs : Kill(p)

\* The same with start attempts that hang, cleanup() calls from outside
\* and the exit of the supervisor's interpreter.
NextLifecycle(T, K, O) ==
    \/ \E t \in T, o1 \in O, o2 \in O :
         \E code \in Codes(t, K) : Acquire(t, code, o1, o2)
    \/ \E t \in T, o \in O : Probe(t, o)
    \/ \E t \in T : Send(t)
    \/ \E t \in T : Recv(t)
    \/ \E t \in T : StartBlocked(t)
    \/ \E t \in T : CallCleanup(t)
    \/ AtExit
    \/ \E p \in DOMAIN procs : WorkerServe(p)
    \/ \E p \in DOMAIN procs : Kill(p)

\* Every thread, every snippet, every start outcome.
Next ==
    NextLifecycle(Threads, AllKinds \cup ResetKinds,
                  StartOutcomes \cup HangOutcomes)

Spec == Init /\ [][Next]_vars

\* Calls made one after the other by a single thread.
SpecSequential == Init /\ [][NextFor({"t1"}, AllKinds)]_vars

\* Concurrent callers.
SpecConcurrent ==
    Init /\ [][NextFor(Threads, {"bind", "exit", "rawline"})]_vars

\* One thread calling execute() and cleanup(), then the interpreter exits.
SpecShutdown ==
    Init /\ [][NextLifecycle({"t1"}, {"bind", "rawline"},
                             {"ready", "bad_line"} \cup HangOutcomes)]_vars

\* ------------------------------------------- PersistentPythonExecutor
\* executor_optimized.py: the same supervisor without execution counter,
\* restart schedule, garbage collection and reset; its worker runs run_code.

\* run_code with sys.path put back after the snippet.
run_code_Restoring(code, w) ==
    LET ex == Exec(code, {}, {}, w)
    IN  [propagates |-> ex.raised = "SystemExit",
         raw |-> ex.raw,
         w |-> [w EXCEPT !.path = RestorePath(ex.path, Len(w.path))],
         result |->
            IF ex.raised = "none"
            THEN [stdout |-> ex.stdout, stderr |-> <<>>,
                  locals |-> {<<b[1], str(b[2])>> : b \in ex.locals}]
            ELSE [error |-> ex.raised, traceback |-> "Traceback",
                  stdout |-> ex.stdout, stderr |-> <<>>]]

\* run_code (executor_optimized.py:51-69): fresh globals and locals, no
\* finally block; what the snippet did to sys.path stays.
run_code(code, w) ==
    LET ex == Exec(code, {}, {}, w)
    IN  [propagates |-> ex.raised = "SystemExit",
         raw |-> ex.raw,
         w |-> [w EXCEPT !.path = ex.path, !.modules = ex.modules],
         result |->
            IF ex.raised = "none"
            THEN [stdout |-> ex.stdout, stderr |-> <<>>,
                  locals |-> {<<b[1], str(b[2])>> : b \in ex.locals}]
            ELSE [error |-> ex.raised, traceback |-> "Traceback",
                  stdout |-> ex.stdout, stderr |-> <<>>]]

\* One iteration of the persistent worker's main loop.
PersistentServeLine(w, line) ==
    LET request == json_loads(line)
        w0 == [w EXCEPT !.stdin = Tail(@), !.served = @ + 1]
    IN  IF ~request.ok
        THEN [w0 EXCEPT !.stdout = Append(@, json_dumps(
                 [error |-> "JSONDecodeError", traceback |-> "Traceback"]))]
        ELSE IF request.val.code = EmptyCode
        THEN [w0 EXCEPT !.stdout = Append(@, json_dumps(
                 [error |-> "No code provided"]))]
        ELSE LET r == run_code(request.val.code, w0)
             IN  IF r.propagates
                 THEN Exited([r.w EXCEPT !.stdout = @ \o r.raw])
                 ELSE [r.w EXCEPT !.stdout =
                          (@ \o r.raw) \o <<json_dumps(r.result)>>]

\* PersistentPythonExecutor._start_process: as the isolated one, but there
\* is no counter to reset.
Persistent_start_process(s, outcome) ==
    [_start_process(s, outcome) EXCEPT !.count = s.count]

\* Lines 134-137: take the lock, start the worker on first use.
PersistentAcquire(t, code, o) ==
    /\ pc[t] = "idle"
    /\ ncalls < MaxCalls
    /\ LockAvailable(t)
    /\ ncalls' = ncalls + 1
    /\ UNCHANGED <<config, cleanup_called>>
    /\ LET s1 == IF ~_initialized THEN Persistent_start_process(Sup, o)
                 ELSE Sup
           c  == [NoCall EXCEPT !.code = code, !.starts = s1.starts,
                                !.spawned = s1.spawned]
       IN  IF s1.raised # "none"
           THEN EndCall(t, s1, c, "raised", s1.raised)
           ELSE /\ Commit(s1)
                /\ pc' = [pc EXCEPT ![t] = "probe"]
                /\ call' = [call EXCEPT ![t] = c]
                /\ _lock' = t
                /\ UNCHANGED last

\* Lines 139-143: the liveness probe with its restart.
PersistentProbe(t, o) ==
    /\ pc[t] = "probe"
    /\ UNCHANGED <<config, ncalls, cleanup_called>>
    /\ LET s0 == [Sup EXCEPT !.starts = call[t].starts,
                             !.spawned = call[t].spawned]
           s1 == IF ProcessDead(s0)
                 THEN Persistent_start_process(
                          [s0 EXCEPT !.initialized = FALSE], o)
                 ELSE s0
           c  == [call[t] EXCEPT !.starts = s1.starts,
                                 !.spawned = s1.spawned,
                                 !.probe_dead = ~procs[_process].alive]
       IN  IF s1.raised # "none"
           THEN EndCall(t, s1, c, "raised", s1.raised)
           ELSE Continue(t, s1, c, "send")

\* Lines 145-154: write the request line {"code": code} and flush.
PersistentSend(t) ==
    /\ pc[t] = "send"
    /\ UNCHANGED <<config, ncalls, cleanup_called>>
    /\ LET request_line == json_dumps([code |-> call[t].code])
           c == [call[t] EXCEPT !.writes = @ + 1]
       IN  IF Sup.procs[_process].alive
           THEN Continue(t, [Sup EXCEPT !.procs[_process].stdin =
                                            Append(@, request_line)],
                         c, "recv")
           ELSE LET s == except_block(Sup)
                IN  EndCall(t, s, call[t], "raised", s.raised)

\* Lines 156-169 on the supervisor fields s: as the isolated one, without
\* execution_count in the result.
Persistent_read_response(s) ==
    LET w == s.procs[s.process]
    IN  IF w.stdout = <<>>
        THEN [s |-> except_block(s), status |-> "raised",
              val |-> except_block(s).raised]
        ELSE LET parsed == json_loads(Head(w.stdout))
                 s0 == [s EXCEPT !.procs[s.process].stdout = Tail(@)]
             IN  IF ~parsed.ok
                 THEN [s |-> except_block(s0), status |-> "raised",
                       val |-> except_block(s0).raised]
                 ELSE [s |-> s0, status |-> "outcome",
                       val |-> [exit_code |-> 0] @@ parsed.val]

PersistentRecv(t) ==
    /\ pc[t] = "recv"
    /\ procs[_process].stdout # <<>> \/ ~procs[_process].alive
    /\ UNCHANGED <<config, ncalls, cleanup_called>>
    /\ LET r == Persistent_read_response(Sup)
       IN  EndCall(t, r.s, call[t], r.status, r.val)

PersistentWorkerServe(p) ==
    /\ procs[p].alive
    /\ procs[p].stdin # <<>>
    /\ procs' = [procs EXCEPT ![p] = PersistentServeLine(@, Head(@.stdin))]
    /\ UNCHANGED <<config, _process, _initialized, _execution_count, _lock,
                   pc, call, last, ncalls, atexit_registered, cleanup_called>>

\* A PersistentPythonExecutor right after construction; the constructor
\* takes no arguments, the three settings are not used.
InitPersistent ==
    /\ Init
    /\ config = <<1, FALSE, 2>>

NextPersistent(T, K) ==
    \/ \E t \in T, o \in StartOutcomes :
         \E code \in Codes(t, K) : PersistentAcquire(t, code, o)
    \/ \E t \in T, o \in StartOutcomes : PersistentProbe(t, o)
    \/ \E t \in T : PersistentSend(t)
    \/ \E t \in T : PersistentRecv(t)
    \/ \E p \in DOMAIN procs : PersistentWorkerServe(p)
    \/ \E p \in DOMAIN procs : Kill(p)

\* One thread calling a PersistentPythonExecutor with snippets that append
\* to sys.path.
SpecPersistent ==
    InitPersistent
        /\ [][NextPersistent({"t1"}, {"append", "append_raise", "exit"})]_vars

\* The steps that a thread inside execute() takes by itself once they are
\* possible: its blocking reads return when there is something to read.
Progress(T, O) ==
    \E t \in T :
        \/ \E o \in O : Probe(t, o)
        \/ Send(t)
        \/ Recv(t)
        \/ StartBlocked(t)

\* One thread, start attempts that succeed or hang.  The thread and the
\* workers keep running; nothing obliges the environment to kill a worker,
\* the caller to call again or the interpreter to exit.
SpecStartLive ==
    /\ Init
    /\ [][NextLifecycle({"t1"}, {"bind"}, {"ready"} \cup HangOutcomes)]_vars
    /\ WF_vars(Progress({"t1"}, {"ready"} \cup HangOutcomes))
    /\ WF_vars(\E p \in DOMAIN procs : WorkerServe(p))

\* One thread whose snippets import modules and add to sys.path.
SpecReset ==
    Init /\ [][NextFor({"t1"}, {"import", "import_raise", "insert",
                                "append"})]_vars

\* Two threads that call execute() and cleanup().
SpecConcurrentShutdown ==
    Init /\ [][NextLifecycle(Threads, {"bind"},
                             {"ready", "bad_line"} \cup HangOutcomes)]_vars

\* Two threads whose snippets leave the worker's real stdout alone.  The
\* threads keep running and a worker that holds a request reads it: it
\* answers or it exits.
SpecRoundTripLive ==
    /\ Init
    /\ [][NextFor(Threads, {"bind", "exit"})]_vars
    /\ WF_vars(Progress(Threads, StartOutcomes))
    /\ WF_vars(\E p \in DOMAIN procs : WorkerServe(p))

\* ================================================================== claims
\* The shapes of the two outcome records of the wire protocol.
IsSuccessRecord(v) == {"stdout", "stderr", "locals"} \subseteq DOMAIN v

IsFailureRecord(v) == {"error", "traceback", "stdout", "stderr"} \subseteq DOMAIN v

\* The step finishes a call (returns or raises).
Finish == last'.n # last.n

\* The last finished call returned a Failure caused by the snippet raising.
LastIsSnippetFailure ==
    /\ last.status = "outcome"
    /\ IsFailureRecord(last.val)
    /\ last.code.kind \in {"ref", "append_raise"}

\* C1: with threads calling execute concurrently, at most one thread is
\* inside the locked region (so at most one is between writing its request
\* and reading its response), a request line is written only when the worker
\* holds no earlier request and no unread response, and the output a caller
\* gets back is the output of its own snippet.
C1_NoInterleaving ==
    /\ Cardinality({t \in Threads : pc[t] # "idle"}) <= 1
    /\ \A t \in Threads : pc[t] # "idle" => _lock = t
    /\ \A t \in Threads :
         pc[t] = "send" =>
            /\ procs[_process].stdin = <<>>
            /\ procs[_process].stdout = <<>>
    /\ \A p \in DOMAIN procs : Len(procs[p].stdin) <= 1
    /\ (last.status = "outcome" /\ "stdout" \in DOMAIN last.val)
          => last.val.stdout = <<last.code.tag>>

\* t1 is waiting for its response from the worker that has just answered a
\* call of t2.
C1_Witness ==
    /\ pc["t1"] = "recv"
    /\ procs[_process].stdout # <<>>
    /\ last.status = "outcome"
    /\ last.code.tag = "t2"
    /\ last.pid = _process

\* C2: when a call that bound X is followed by a call that references X
\* without binding it, the second call's outcome is a Failure for the
\* unresolved name.
C2_FreshNamespace ==
    [][(/\ Finish
        /\ last.status = "outcome"
        /\ last.code.kind = "bind"
        /\ last'.code.kind = "ref"
        /\ last'.status = "outcome")
       => (/\ IsFailureRecord(last'.val)
           /\ last'.val.error = "NameError")]_vars

\* The call after a successful bind is a ref sent to the same worker
\* process, which has answered it.
C2_Witness ==
    \E t \in Threads :
        /\ pc[t] = "recv"
        /\ call[t].code.kind = "ref"
        /\ call[t].spawned = 0
        /\ procs[_process].stdout # <<>>
        /\ last.status = "outcome"
        /\ last.code.kind = "bind"
        /\ IsSuccessRecord(last.val)
        /\ last.pid = _process

\* C3: between calls the module search path of every live worker has the
\* length it had when the worker started, whatever the calls served so far
\* appended and however they ended.
C3_PathLengthRestored ==
    \A p \in DOMAIN procs :
        procs[p].alive => Len(procs[p].path) = Len(InitialPath)

\* A second appending call is about to be evaluated by the worker whose
\* previous call appended an entry and then raised.
C3_Witness ==
    \E t \in Threads :
        /\ pc[t] = "recv"
        /\ call[t].code.kind = "append"
        /\ call[t].spawned = 0
        /\ procs[_process].stdin # <<>>
        /\ last.status = "outcome"
        /\ last.code.kind = "append_raise"
        /\ last.pid = _process

\* C4: of two consecutive calls that both return and of which the second
\* did not find its worker dead, the second is served by the same process
\* exactly when the first was not that worker's max_executions-th call;
\* otherwise the old process is shut down and exactly one new process is
\* spawned, which serves the second call as its first.
C4_RestartAfterMaxExecutions ==
    [][(/\ Finish
        /\ last.status = "outcome"
        /\ last'.status = "outcome"
        /\ ~last'.probe_dead)
       => IF last.val.execution_count = max_executions
          THEN /\ last'.pid # last.pid
               /\ last'.spawned = 1
               /\ ~procs'[last.pid].alive
               /\ last'.val.execution_count = 1
          ELSE /\ last'.pid = last.pid
               /\ last'.spawned = 0
               /\ last'.val.execution_count = last.val.execution_count + 1]_vars

\* With max_executions = 2: a call returned from the one process spawned by
\* its restart.
C4_Witness ==
    /\ max_executions = 2
    /\ last.status = "outcome"
    /\ last.restarted
    /\ last.spawned = 1
    /\ ~last.probe_dead
    /\ last.val.execution_count = 1

\* C5: every step that replaces a worker process that had started by a new
\* one increments the restart_count of the stats by exactly 1.
C5_RestartCountInStats ==
    [][(_process # 0 /\ procs[_process].ready /\ _process' # _process)
       => /\ "restart_count" \in DOMAIN get_stats
          /\ "restart_count" \in DOMAIN get_stats'
          /\ get_stats'.restart_count = get_stats.restart_count + 1]_vars

\* C6: when the liveness probe runs on a worker that has exited, the call
\* either fails because the new start attempt fails, or goes on to send to
\* a newly spawned live worker; and such a call, when its new worker is
\* still alive at the end and the snippet leaves the worker's real stdout
\* alone, returns an outcome from the new worker, numbered 1.
\* (With force_gc_interval = 0 no call gets past the counter.)
C6_DeadWorkerReplaced ==
    [][/\ \A t \in Threads :
            (pc[t] = "probe" /\ pc'[t] # "probe" /\ ~procs[_process].alive)
            => \/ /\ pc'[t] = "idle"
                  /\ last'.status = "raised"
                  /\ last'.val \in {"StartupFailure", "ConfigurationError"}
               \/ /\ pc'[t] = "idle"
                  /\ force_gc_interval = 0
                  /\ last'.status = "raised"
                  /\ last'.val = "ZeroDivisionError"
               \/ /\ pc'[t] = "send"
                  /\ _process' # _process
                  /\ _process' = Len(procs')
                  /\ procs'[_process'].alive
                  /\ procs'[_process'].served = 0
                  /\ _initialized'
       /\ (/\ Finish
           /\ last'.probe_dead
           /\ last'.writes = 1
           /\ procs'[_process'].alive
           /\ last'.code.kind # "rawline")
          => /\ last'.status = "outcome"
             /\ last'.pid = _process'
             /\ last'.spawned >= 1
             /\ last'.val.execution_count = 1]_vars

\* A call that found the worker of the previous call dead has returned an
\* outcome from the worker it spawned.
C6_Witness ==
    /\ last.n >= 2
    /\ last.probe_dead
    /\ last.spawned = 1
    /\ last.status = "outcome"
    /\ last.val.execution_count = 1
    /\ procs[last.pid].alive

\* C7: a call writes its request line at most once; after a call has failed
\* in the send/receive block the handle is marked not started, and the next
\* call sends its request only after it has spawned a new worker.
C7_SendReceiveFailure ==
    /\ \A t \in Threads : call[t].writes <= 1
    /\ last.writes <= 1
    /\ (last.status = "raised" /\ last.val = "ExecutionFailed")
          => /\ (\A t \in Threads : pc[t] = "idle") => ~_initialized
             /\ \A t \in Threads :
                  pc[t] \in {"send", "recv"} =>
                     /\ call[t].spawned >= 1
                     /\ _process # last.pid
                     /\ procs[_process].served
                           <= (IF pc[t] = "send" THEN 0 ELSE 1)

\* After a call that failed in the send/receive block with its request
\* written, the next call is about to send to the worker it has started.
C7_Witness ==
    \E t \in Threads :
        /\ pc[t] = "send"
        /\ last.status = "raised"
        /\ last.val = "ExecutionFailed"
        /\ last.writes = 1

\* The request the worker p is about to read holds a snippet that raises
\* during its evaluation.
RaisingRequest(p) ==
    /\ procs[p].alive
    /\ procs[p].stdin # <<>>
    /\ Head(procs[p].stdin).body.code.kind \in {"ref", "append_raise", "exit"}

\* C8: whenever the worker evaluates a snippet that raises, whatever it
\* raises, the worker stays alive and the line it writes is a Failure
\* response (the one execute then returns).
C8_EvaluationErrorIsData ==
    [][\A p \in DOMAIN procs :
          (RaisingRequest(p) /\ procs'[p].served = procs[p].served + 1)
          => /\ procs'[p].alive
             /\ procs'[p].stdout # <<>>
             /\ IsFailureRecord(procs'[p].stdout[Len(procs'[p].stdout)].body)]_vars

\* C9: after a call that returned a snippet Failure the handle is still
\* started on the same process; if the restart is not due and the probe
\* finds the worker alive, the next call is served by that process without
\* a start, and a snippet that neither raises nor writes to the worker's
\* real stdout gets a Success, provided the worker is not killed meanwhile.
C9_WorkerSurvivesFailure ==
    /\ [](LastIsSnippetFailure /\ (\A t \in Threads : pc[t] = "idle")
            => _initialized /\ _process = last.pid)
    /\ [][(/\ Finish
           /\ LastIsSnippetFailure
           /\ last.val.execution_count < max_executions
           /\ ~last'.probe_dead)
          => /\ last'.pid = last.pid
             /\ last'.starts = 0
             /\ (last'.code.kind \in {"bind", "append"} /\ procs'[_process'].alive)
                   => /\ last'.status = "outcome"
                      /\ IsSuccessRecord(last'.val)]_vars

\* The call after a snippet Failure has been answered with a Success by the
\* same process, without any start.
C9_Witness ==
    \E t \in Threads :
        /\ pc[t] = "recv"
        /\ call[t].code.kind = "bind"
        /\ call[t].starts = 0
        /\ LastIsSnippetFailure
        /\ last.pid = _process
        /\ procs[_process].stdout # <<>>
        /\ IsSuccessRecord(Head(procs[_process].stdout).body)

C11_FailedStartRaises ==
    /\ [][(/\ Len(procs') > Len(procs)
           /\ ~procs'[Len(procs')].ready
           /\ ~procs'[Len(procs')].alive)
          =>   /\ \A t \in Threads : pc'[t] = "idle"
               /\ Finish
               /\ last'.status = "raised"
               /\ last'.val = "StartupFailure"
               /\ last'.writes = 0
               /\ last'.pid = Len(procs')
               /\ ~_initialized']_vars
    /\ [](\A p \in DOMAIN procs :
            ~procs[p].ready => procs[p].stdin = <<>> /\ procs[p].served = 0)
    /\ [][(Finish /\ last.status = "raised" /\ last.val = "StartupFailure")
          => last'.starts >= 1]_vars

\* The call after a startup failure has started a worker of its own and is
\* about to send to it.
C11_Witness ==
    \E t \in Threads :
        /\ pc[t] = "send"
        /\ call[t].starts = 1
        /\ procs[_process].ready
        /\ last.status = "raised"
        /\ last.val = "StartupFailure"
        /\ last.spawned = 1
        /\ last.pid # _process

\* C12: a start attempt that waits for the READY line of a worker ends,
\* unless that worker exits first (and then it ends too).
C12_StartTerminates ==
    \A t \in Threads :
        [](pc[t] = "starting"
             => <>(pc[t] # "starting" \/ ~procs[_process].alive))

\* C13: at most one of the worker processes spawned by the supervisor is
\* alive at any moment.
C13_AtMostOneLiveWorker ==
    Cardinality({p \in DOMAIN procs : procs[p].alive}) <= 1

\* C14: once cleanup() has been called on a supervisor whose worker had
\* started, no step spawns a worker process or writes a request line.
C14_ShutdownIsTerminal ==
    [][(cleanup_called /\ _process # 0 /\ procs[_process].ready)
       => /\ Len(procs') = Len(procs)
          /\ \A p \in DOMAIN procs :
                Len(procs'[p].stdin) <= Len(procs[p].stdin)]_vars

\* C15: when cleanup() returns the current worker is not alive; cleanup()
\* without a worker or with a dead one changes nothing; and when the exit
\* hook has run no worker spawned by the supervisor is alive.
C15_ShutdownReleasesWorker ==
    /\ [][(\E t \in Threads : CallCleanup(t))
          => /\ _process' = _process
             /\ _process # 0 => ~procs'[_process].alive
             /\ (_process = 0 \/ ~procs[_process].alive) => procs' = procs]_vars
    /\ [][(AtExit /\ atexit_registered)
          => \A p \in DOMAIN procs' : ~procs'[p].alive]_vars

\* C16: the periodic garbage collection never makes a call fail, whatever
\* force_gc_interval is: a call whose worker is started and alive after the
\* probe goes on to send its request.
C16_GcNeverFails ==
    [][\A t \in Threads :
          (pc[t] = "probe" /\ pc'[t] = "idle")
          => /\ last'.status = "raised"
             /\ last'.val \in {"StartupFailure", "ConfigurationError"}]_vars

\* C17: the execution counter stays within 0..max_executions; no worker
\* process has taken in more than max_executions request lines, and the
\* current worker no more than the counter says; after a call the restart
\* test count >= max_executions is the test count mod max_executions = 0;
\* and with max_executions = 1 a request is only sent to a worker that has
\* taken in none before.
C17_AtMostMaxRequestsPerWorker ==
    /\ 0 <= _execution_count
    /\ _execution_count <= max_executions
    /\ \A p \in DOMAIN procs :
          procs[p].served + Len(procs[p].stdin) <= max_executions
    /\ (_process # 0 /\ procs[_process].ready)
          => procs[_process].served + Len(procs[_process].stdin)
                <= _execution_count
    /\ _execution_count >= 1
          => (RestartDue(_execution_count, max_executions)
                <=> _execution_count % max_executions = 0)
    /\ max_executions = 1
          => \A t \in Threads :
                pc[t] = "send" => /\ procs[_process].served = 0
                                  /\ procs[_process].stdin = <<>>

\* With max_executions = 1: after a call that returned, the next call is
\* about to send to another worker, which has served nothing.
C17_Witness ==
    \E t \in Threads :
        /\ max_executions = 1
        /\ pc[t] = "send"
        /\ call[t].restarted
        /\ last.status = "outcome"
        /\ last.val.execution_count = 1
        /\ last.pid # _process
        /\ procs[_process].served = 0

\* C18: the execution_count of a returned outcome is the number of request
\* lines the serving worker has read, this one included; it is 1 when the
\* call started its worker and when the call before it raised; and when the
\* call before it returned from the same worker process it is that call's
\* execution_count plus 1.
C18_ExecutionCountIsPosition ==
    /\ [][\A t \in Threads :
            (pc[t] = "recv" /\ pc'[t] = "idle" /\ last'.status = "outcome")
            => /\ last'.val.execution_count = procs[_process].served
               /\ last'.val.execution_count = _execution_count]_vars
    /\ [][(Finish /\ last'.status = "outcome")
          => /\ last'.starts >= 1 => last'.val.execution_count = 1
             /\ last.status = "raised" =>
                   /\ last'.val.execution_count = 1
                   /\ last'.pid # last.pid
             /\ (last.status = "outcome" /\ last'.pid = last.pid)
                   => last'.val.execution_count
                         = last.val.execution_count + 1]_vars

\* A worker has answered its second request after its first outcome was
\* returned with execution_count 1.
C18_Witness ==
    \E t \in Threads :
        /\ pc[t] = "recv"
        /\ call[t].starts = 0
        /\ last.status = "outcome"
        /\ last.val.execution_count = 1
        /\ last.pid = _process
        /\ _execution_count = 2
        /\ procs[_process].served = 2
        /\ procs[_process].stdout # <<>>

\* C19: every request line a worker reads makes it write exactly one line.
C19_OneResponsePerRequest ==
    [][\A p \in DOMAIN procs :
          (p <= Len(procs') /\ procs'[p].served = procs[p].served + 1)
          => Len(procs'[p].stdout) = Len(procs[p].stdout) + 1]_vars

\* C20: a thread that is sending or waiting for the response holds a worker
\* that printed READY, with the handle marked started, found alive by its
\* probe or spawned by it; only workers that printed READY ever hold a
\* request line; a call that finds the handle not started starts a worker
\* before it goes on; the probe lets a call go on to send only with a live
\* worker; and a call returns an outcome only after writing its request.
C20_SendOnlyToReadyWorker ==
    /\ [](\A t \in Threads :
            pc[t] \in {"send", "recv"}
            => /\ _initialized
               /\ procs[_process].ready
               /\ call[t].probe_dead => call[t].spawned >= 1)
    /\ [](\A p \in DOMAIN procs : procs[p].stdin # <<>> => procs[p].ready)
    /\ [](last.status = "outcome" => last.writes = 1)
    /\ [][\A t \in Threads :
            (pc[t] = "idle" /\ pc'[t] = "probe" /\ ~_initialized)
            => /\ call'[t].starts >= 1
               /\ _process' = Len(procs')
               /\ procs'[_process'].ready]_vars
    /\ [][\A t \in Threads :
            (pc[t] = "probe" /\ pc'[t] = "send")
            => /\ procs'[_process'].alive
               /\ procs'[_process'].ready
               /\ ~procs[_process].alive => _process' = Len(procs')]_vars

\* After a call that failed on its response, the next call has started a
\* worker of its own and has written its request to it.
C20_Witness ==
    \E t \in Threads :
        /\ pc[t] = "recv"
        /\ call[t].starts = 1
        /\ call[t].writes = 1
        /\ procs[_process].ready
        /\ last.status = "raised"
        /\ last.val = "ExecutionFailed"

\* C21: on the persistent executor every live worker's sys.path holds one
\* more entry per appending call it has served, and of two consecutive
\* calls that both return, the second not having found its worker dead, the
\* second is served by the same process without any start.
C21_PersistentNeverResets ==
    /\ [](\A p \in DOMAIN procs :
            (procs[p].alive /\ procs[p].ready)
            => Len(procs[p].path) = Len(InitialPath) + procs[p].served)
    /\ [][(/\ Finish
           /\ last.status = "outcome"
           /\ last'.status = "outcome"
           /\ ~last'.probe_dead)
          => /\ last'.pid = last.pid
             /\ last'.starts = 0]_vars

\* The third call is about to be evaluated by the worker that served the
\* two appending calls before it: its sys.path has two more entries.
C21_Witness ==
    \E t \in Threads :
        /\ pc[t] = "recv"
        /\ call[t].starts = 0
        /\ procs[_process].stdin # <<>>
        /\ procs[_process].served = 2
        /\ Len(procs[_process].path) = Len(InitialPath) + 2
        /\ last.status = "outcome"
        /\ last.pid = _process

\* C22: a step of execute that fails on the missing compose file ends the
\* call with the configuration error raised and no further attempt; it
\* creates no process and the call has written no request; the execution
\* counter and the process reference are as before and the handle is not
\* started; and when the handle was not started before the call, nothing of
\* the supervisor and of its workers has changed.
C22_MissingComposeFile ==
    [][(Finish /\ last'.status = "raised" /\ last'.val = "ConfigurationError")
       => /\ \A t \in Threads : pc'[t] = "idle"
          /\ Len(procs') = Len(procs)
          /\ last'.writes = 0
          /\ _execution_count' = _execution_count
          /\ _process' = _process
          /\ ~_initialized'
          /\ (~_initialized /\ \A t \in Threads : pc[t] = "idle")
                => /\ procs' = procs
                   /\ last'.starts = 1
                   /\ last'.spawned = 0]_vars

\* The first call of a supervisor has failed on the missing compose file.
C22_Witness ==
    /\ last.n = 1
    /\ last.status = "raised"
    /\ last.val = "ConfigurationError"
    /\ last.starts = 1
    /\ _process = 0
    /\ procs = <<>>
    /\ ~_initialized
    /\ _lock = "free"

C24_FieldsWrittenUnderLock ==
    [][(<<_execution_count, _initialized, _process>>'
            # <<_execution_count, _initialized, _process>>)
       => \/ \E t \in Threads :
                /\ pc[t] \notin {"idle", "exited"}
                /\ _lock = t
                /\ pc'[t] # pc[t]
          \/ /\ ncalls' = ncalls + 1
             /\ _lock = "free"]_vars

\* While t1 is inside execute() with a started worker, t2 has called
\* cleanup().
C24_Witness ==
    /\ pc["t1"] = "recv"
    /\ _lock = "t1"
    /\ cleanup_called
    /\ _initialized
    /\ ~procs[_process].alive

\* C26: cleanup() never ends the worker while a thread has written its
\* request to it and has not yet read the response.
C26_CleanupSerializedWithExecute ==
    [][\A t \in Threads :
          (CallCleanup(t) /\ procs' # procs)
          => \A u \in Threads : pc[u] # "recv"]_vars

\* C27: whenever no thread is inside execute() the lock is free, however
\* the calls so far ended, and a thread inside execute() is the holder.
C27_LockReleasedOnEveryPath ==
    /\ (\A t \in Threads : pc[t] = "idle") => _lock = "free"
    /\ \A t \in Threads : _lock = t => pc[t] # "idle"
    /\ last.n = ncalls => _lock = "free"

\* t2 holds the lock after a call of t1 that raised between taking the lock
\* and sending.
C27_Witness ==
    /\ pc["t2"] = "probe"
    /\ _lock = "t2"
    /\ last.code.tag = "t1"
    /\ last.status = "raised"
    /\ last.val = "ZeroDivisionError"

\* The request the live worker p is about to read asks for the snippet to
\* be run with module cleanup `flag`.
CleanupRequest(p, flag) ==
    /\ procs[p].alive
    /\ procs[p].stdin # <<>>
    /\ Head(procs[p].stdin).body.code # EmptyCode
    /\ Head(procs[p].stdin).body.cleanup_modules = flag

\* C25 as claimed: after a call with module cleanup every loaded module
\* was in the snapshot taken at the start of the call.
C25_OnlySnapshotModulesRemain ==
    [][\A p \in DOMAIN procs :
          (CleanupRequest(p, TRUE) /\ procs'[p].served = procs[p].served + 1
              /\ procs'[p].alive)
          => procs'[p].modules \subseteq procs[p].modules]_vars

\* C25 amended: after a call with module cleanup the loaded modules are
\* those of the snapshot together with the modules the snippet loaded whose
\* names start with an underscore; without module cleanup they are those of
\* the snapshot together with all the snippet loaded.
C25_CleanupSkipsUnderscoreModules ==
    [][\A p \in DOMAIN procs :
          (procs'[p].served = procs[p].served + 1 /\ procs'[p].alive)
          => LET loaded == Imports(Head(procs[p].stdin).body.code)
             IN  /\ CleanupRequest(p, TRUE)
                    => procs'[p].modules = procs[p].modules \cup
                          {mod \in loaded : startswith_underscore(mod)}
                 /\ CleanupRequest(p, FALSE)
                    => procs'[p].modules = procs[p].modules \cup loaded]_vars

\* A worker running with module cleanup has answered an importing call
\* that raised: m is gone, _m is still loaded.
C25_Witness ==
    /\ cleanup_modules
    /\ last.status = "outcome"
    /\ last.code.kind = "import_raise"
    /\ procs[last.pid].alive
    /\ "_m" \in procs[last.pid].modules
    /\ "m" \notin procs[last.pid].modules

\* C28: between calls the module search path of every live worker is the
\* sequence it was when the worker started, wherever the snippets served
\* so far added their entries.
C28_PathSequenceRestored ==
    \A p \in DOMAIN procs :
        (procs[p].alive /\ procs[p].ready) => procs[p].path = InitialPath

\* C29: a call with the empty string as code increments the execution
\* counter and sends its request like any other; the worker that reads it
\* changes nothing of its state and writes the record 'No code provided';
\* and the call returns that record with exit_code and execution_count
\* added, leaving the handle started on the same process.
C29_EmptyCodeRoundTrip ==
    /\ [][\A t \in Threads :
            (pc[t] = "probe" /\ pc'[t] = "send" /\ call[t].code = EmptyCode)
            => /\ _execution_count' >= 1
               /\ _process' = _process
                     => _execution_count' = _execution_count + 1]_vars
    /\ [][\A p \in DOMAIN procs :
            (/\ procs[p].alive
             /\ procs[p].stdin # <<>>
             /\ Head(procs[p].stdin).body.code = EmptyCode
             /\ procs'[p].served = procs[p].served + 1)
            => procs'[p] =
                 [procs[p] EXCEPT
                    !.stdin = Tail(@), !.served = @ + 1,
                    !.stdout = Append(@, json_dumps(
                                   [error |-> "No code provided"]))]]_vars
    /\ [][\A t \in Threads :
            (/\ pc[t] = "recv"
             /\ pc'[t] = "idle"
             /\ call[t].code = EmptyCode
             /\ procs[_process].stdout # <<>>)
            => /\ last'.status = "outcome"
               /\ last'.val = [error |-> "No code provided", exit_code |-> 0,
                               execution_count |-> _execution_count]
               /\ last'.writes = 1
               /\ _initialized'
               /\ _process' = _process
               /\ Len(procs') = Len(procs)
               /\ _execution_count' = _execution_count]_vars

\* The second call on a worker passed the empty string and has returned
\* the record, numbered 2; the worker is alive and the handle started.
C29_Witness ==
    /\ last.status = "outcome"
    /\ last.code = EmptyCode
    /\ last.val.error = "No code provided"
    /\ last.val.execution_count = 2
    /\ last.starts = 0
    /\ _initialized
    /\ _process = last.pid
    /\ procs[_process].alive

\* C30: no call makes more than two start attempts.
C30_AtMostTwoStarts ==
    /\ \A t \in Threads : call[t].starts <= 2 /\ call[t].spawned <= 2
    /\ last.starts <= 2
    /\ last.spawned <= 2

\* A call has made two start attempts and raised because the second one
\* failed.
C30_Witness ==
    /\ last.starts = 2
    /\ last.spawned = 2
    /\ last.probe_dead
    /\ last.status = "raised"
    /\ last.val = "StartupFailure"

====
